---- MODULE Spec2Model ----
(***************************************************************************)
(* Model of the gradient_username module of starship                       *)
(* (src/modules/gradient_username.rs): the display decision of module(),   *)
(* the formatter call, and the flat_map loop that drives gradientify over  *)
(* the formatter's segments with the running offset `total`.               *)
(*                                                                         *)
(* Strings are sequences of Unicode scalar values (code points).           *)
(* Option<T> is a sequence: <<>> is None, <<x>> is Some(x).                *)
(***************************************************************************)
EXTENDS Integers, Sequences, FiniteSets, TLC

VARIABLES env, windows, is_root, config, pc, segments, i, total, k, w, out, result

vars == <<env, windows, is_root, config, pc, segments, i, total, k, w, out, result>>

----------------------------------------------------------------------------
(* Bounds of the model *)

\* longest format, counted in template elements
MaxFormatLen == 3

\* by how many graphemes the longest username exceeds the sample count
Excess == 1

----------------------------------------------------------------------------
(* Option and small helpers *)

None == <<>>

Some(x) == <<x>>

Min(a, b) == IF a < b THEN a ELSE b

Max(a, b) == IF a > b THEN a ELSE b

\* n copies of the scalar c
Repeat(c, n) == [j \in 1..n |-> c]

----------------------------------------------------------------------------
(* Strings: UTF-8 length and grapheme clusters *)

AtLeast(s, lo) == Len(SelectSeq(s, LAMBDA c : c >= lo))

\* str::len(): the length of the string in bytes, the sum of Utf8Len over its
\* scalars (one byte each, one more from 128, from 2048 and from 65536)
StrLen(s) == Len(s) + AtLeast(s, 128) + AtLeast(s, 2048) + AtLeast(s, 65536)

\* scalars that never start a cluster: combining marks and ZERO WIDTH JOINER
IsExtend(c) == (c >= 768 /\ c <= 879) \/ c = 8205

\* no cluster boundary between the scalars a and b (a before b)
NoBreak(a, b) == IsExtend(b) \/ a = 8205 \/ (a = 13 /\ b = 10)

\* the positions of s at which a cluster starts, in order
ClusterStarts(s) ==
    SelectSeq([p \in 1..Len(s) |-> p], LAMBDA p : p = 1 \/ ~NoBreak(s[p - 1], s[p]))

\* UnicodeSegmentation::graphemes(true): the extended grapheme clusters of s
Graphemes(s) ==
    LET starts == ClusterStarts(s)
    IN  [j \in 1..Len(starts) |->
            SubSeq(s, starts[j], IF j = Len(starts) THEN Len(s) ELSE starts[j + 1] - 1)]

----------------------------------------------------------------------------
(* Styles and colours *)

NoColor == [kind |-> "None", gradient |-> "", sample |-> 0, of |-> 0]

Named(name) == [kind |-> name, gradient |-> "", sample |-> 0, of |-> 0]

\* Style::default(): no colours, no attributes
DefaultStyle == [foreground |-> NoColor, background |-> NoColor, is_bold |-> FALSE]

\* the custom gradient of module(); magma when the build fails
HtmlColors == <<"#C7D2FE", "#FECACA", "#FEF9C3">>

Domain == <<0, 50, 100>>

BuildGradient == IF Len(HtmlColors) = Len(Domain)
                    /\ \A a \in 1..Len(Domain) - 1 : Domain[a] <= Domain[a + 1]
                 THEN "sunset" ELSE "magma"

\* Gradient::colors(n): n colours evenly spaced over the domain; the j-th is
\* the curve at domain position (j - 1) / (n - 1)
Colors(gradient, n) == [j \in 1..n |-> [gradient |-> gradient, sample |-> j - 1, of |-> n]]

\* Color::to_linear_rgba_u8 followed by Color::Rgb(r, g, b)
ToLinearRgb(c) == [kind |-> "RgbLinear", gradient |-> c.gradient, sample |-> c.sample, of |-> c.of]

TotalSamples == 144

----------------------------------------------------------------------------
(* Segments *)

TextSegment(value, style) == [kind |-> "Text", value |-> value, style |-> style]

FillSegment(value, style) == [kind |-> "Fill", value |-> value, style |-> style]

LineBreak == [kind |-> "LineBreak", value |-> <<10>>, style |-> None]

SkipNone(s, n) == s

\* Iterator::skip(n)
Skip(s, n) == IF n >= Len(s) THEN <<>> ELSE SubSeq(s, n + 1, Len(s))

\* the style the match at the head of gradientify selects
StyleOrDefault(segment) == IF segment.style = None THEN DefaultStyle ELSE segment.style[1]

MapPairDefault(segment, st, color, val) ==
    CASE segment.kind = "Text" -> TextSegment(val, Some([DefaultStyle EXCEPT !.foreground = color]))
      [] segment.kind = "Fill" -> FillSegment(val, Some(DefaultStyle))
      [] OTHER -> TextSegment(val, Some(DefaultStyle))

\* one (colour, grapheme) pair of gradientify mapped to its segment
MapPair(segment, st, color, val) ==
    CASE segment.kind = "Text" -> TextSegment(val, Some([st EXCEPT !.foreground = color]))
      [] segment.kind = "Fill" -> FillSegment(val, Some(st))
      [] OTHER -> TextSegment(val, Some(st))

gradientify(segment, gradient, n, kk) ==
    LET st == StyleOrDefault(segment)
        cs == Skip(Colors(gradient, n), kk)
        gs == Graphemes(segment.value)
    IN  [j \in 1..Min(Len(cs), Len(gs)) |-> MapPair(segment, st, ToLinearRgb(cs[j]), gs[j])]

----------------------------------------------------------------------------
(* Environment, configuration and the formatter *)

USERNAME_ENV_VAR == IF windows THEN "USERNAME" ELSE "USER"

SshVars == {"SSH_CONNECTION", "SSH_CLIENT", "SSH_TTY"}

EnvVars == {"USER", "USERNAME", "LOGNAME"} \cup SshVars

get_env(name) == env[name]

get_env_os(name) == env[name]

Astronaut == <<97, 115, 116, 114, 111, 110, 97, 117, 116>>

Cosmonaut == <<99, 111, 115, 109, 111, 110, 97, 117, 116>>

\* "jose" followed by COMBINING ACUTE ACCENT: 5 scalars, 6 bytes, 4 graphemes
Jose == <<106, 111, 115, 101, 769>>

LongName == Repeat(117, TotalSamples + Excess)

Administrator == <<65, 100, 109, 105, 110, 105, 115, 116, 114, 97, 116, 111, 114>>

Usernames == {<<>>, Astronaut, Jose, LongName}

SshValues == {<<>>, <<49, 57, 50>>}

InText == <<32, 105, 110, 32>>

LongText == Repeat(120, TotalSamples - 4)

StyleUser == [foreground |-> Named("yellow"), background |-> NoColor, is_bold |-> TRUE]

StyleRoot == [foreground |-> Named("red"), background |-> NoColor, is_bold |-> TRUE]

StyleFill == [foreground |-> Named("black"), background |-> NoColor, is_bold |-> TRUE]

StyleLong == [foreground |-> NoColor, background |-> Named("blue"), is_bold |-> FALSE]

\* template elements: "[$user]($style)", " in ", "$fill", "\n", "[xxx...](bg:blue)"
Elements == {"User", "In", "Fill", "Newline", "Long"}

\* "[$user]($style) in "
DefaultFormat == <<"User", "In">>

\* a template with an unclosed text group
BadFormat == <<"User", "Unclosed">>

Formats == UNION {[1..l -> Elements] : l \in 0..MaxFormatLen}

\* StringFormatter::new: the template's syntax is checked
FormatterNew(format) == \A p \in 1..Len(format) : format[p] \in Elements

\* the segment one template element is rendered to
ElementSegment(el, username, module_style) ==
    CASE el = "User" -> TextSegment(username, Some(module_style))
      [] el = "In" -> TextSegment(InText, None)
      [] el = "Fill" -> FillSegment(<<46>>, Some(StyleFill))
      [] el = "Newline" -> LineBreak
      [] OTHER -> TextSegment(LongText, Some(StyleLong))

\* map_style / map / parse of module(): "style" is style_root or style_user,
\* "user" is the username
Parse(format, username, root) ==
    LET module_style == IF root THEN config.style_root ELSE config.style_user
    IN  [p \in 1..Len(format) |-> ElementSegment(format[p], username, module_style)]

is_login_user(username) ==
    IF get_env("LOGNAME") = None THEN TRUE ELSE get_env("LOGNAME")[1] = username

is_ssh_session_nonempty ==
    \E v \in SshVars : get_env_os(v) # None /\ get_env_os(v)[1] # <<>>

is_ssh_session == \E v \in SshVars : get_env_os(v) # None

UsernameOrLogname ==
    IF get_env(USERNAME_ENV_VAR) = None THEN get_env("LOGNAME") ELSE get_env(USERNAME_ENV_VAR)

\* context.get_env(USERNAME_ENV_VAR)
UsernameVar == get_env(USERNAME_ENV_VAR)

\* the username module() displays, once the variable is known to be present
Username == IF windows /\ is_root THEN Administrator ELSE UsernameVar[1]

show_username ==
    \/ config.show_always
    \/ is_root
    \/ ~is_login_user(Username)
    \/ is_ssh_session

\* the `?` on get_env(USERNAME_ENV_VAR)
UsernameAbsent == UsernameVar = None

----------------------------------------------------------------------------
(* Initial states *)

Configs(formats, always) ==
    [show_always : always, format : formats, style_user : {StyleUser}, style_root : {StyleRoot}]

\* every combination of the inputs of the display decision, with the
\* default template and with a malformed one
InitDecision ==
    /\ windows \in BOOLEAN
    /\ is_root \in BOOLEAN
    /\ config \in Configs({DefaultFormat, BadFormat}, BOOLEAN)
    /\ \E u \in {None} \cup {Some(v) : v \in Usernames},
          l \in {None, Some(Astronaut), Some(Cosmonaut)},
          ssh \in [SshVars -> {None} \cup {Some(x) : x \in SshValues}] :
         env = [v \in EnvVars |->
                  IF v = USERNAME_ENV_VAR THEN u
                  ELSE IF v = "LOGNAME" THEN l
                  ELSE IF v \in SshVars THEN ssh[v]
                  ELSE None]

\* every template of up to MaxFormatLen elements, for a user that is shown
InitRender ==
    /\ windows = FALSE
    /\ is_root \in BOOLEAN
    /\ config \in Configs(Formats, {TRUE})
    /\ \E u \in Usernames :
         env = [v \in EnvVars |-> IF v = "USER" THEN Some(u) ELSE None]

Init ==
    /\ (InitDecision \/ InitRender)
    /\ pc = "start"
    /\ segments = <<>>
    /\ i = 0
    /\ total = 0
    /\ k = 0
    /\ w = <<>>
    /\ out = <<>>
    /\ result = None

----------------------------------------------------------------------------
(* module() *)

Return(r) ==
    /\ pc' = "done"
    /\ result' = r
    /\ UNCHANGED <<env, windows, is_root, config, segments, i, total, k, w, out>>

\* let mut username = context.get_env(USERNAME_ENV_VAR)?;
ModuleNoUsername ==
    /\ pc = "start"
    /\ UsernameAbsent
    /\ Return(None)

\* if !show_username { return None; }
ModuleHidden ==
    /\ pc = "start"
    /\ ~UsernameAbsent
    /\ ~show_username
    /\ Return(None)

\* Err(error) => { log::warn!(...); return None; }
ModuleFormatError ==
    /\ pc = "start"
    /\ ~UsernameAbsent
    /\ show_username
    /\ ~FormatterNew(config.format)
    /\ Return(None)

\* Ok(segments) => { let mut total = 0; ...
ModuleParsed ==
    /\ pc = "start"
    /\ ~UsernameAbsent
    /\ show_username
    /\ FormatterNew(config.format)
    /\ segments' = Parse(config.format, Username, is_root)
    /\ total' = 0
    /\ i' = 0
    /\ out' = <<>>
    /\ pc' = "flat_map"
    /\ UNCHANGED <<env, windows, is_root, config, k, w, result>>

NextTotalPlusOne(t, segment) == t + StrLen(segment.value) + 1

\* total += segment.value().len();
NextTotal(t, segment) == t + StrLen(segment.value)

\* one call of the flat_map closure, on the next segment
FlatMapStep ==
    /\ pc = "flat_map"
    /\ i < Len(segments)
    /\ LET segment == segments[i + 1]
       IN  /\ w' = gradientify(segment, BuildGradient, TotalSamples, total)
           /\ k' = total
           /\ total' = NextTotal(total, segment)
           /\ out' = out \o w'
    /\ i' = i + 1
    /\ UNCHANGED <<env, windows, is_root, config, pc, segments, result>>

\* .collect(), module.set_segments(...), Some(module)
SetSegments ==
    /\ pc = "flat_map"
    /\ i = Len(segments)
    /\ pc' = "done"
    /\ result' = Some(out)
    /\ UNCHANGED <<env, windows, is_root, config, segments, i, total, k, w, out>>

Next ==
    \/ ModuleNoUsername
    \/ ModuleHidden
    \/ ModuleFormatError
    \/ ModuleParsed
    \/ FlatMapStep
    \/ SetSegments

Spec == Init /\ [][Next]_vars

----------------------------------------------------------------------------
(* Vocabulary of the properties *)

\* the grapheme clusters of the a-th segment of the formatter's output
SegmentGraphemes(a) == Graphemes(segments[a].value)

RECURSIVE SumGraphemes(_)
\* the number of grapheme clusters of the first m segments
SumGraphemes(m) == IF m = 0 THEN 0 ELSE SumGraphemes(m - 1) + Len(SegmentGraphemes(m))

RECURSIVE Concat(_, _, _)
\* the concatenation of seqs[lo], ..., seqs[hi]
Concat(seqs, lo, hi) ==
    IF lo > hi THEN <<>>
    ELSE IF lo = hi THEN seqs[lo]
    ELSE LET mid == (lo + hi) \div 2
         IN  Concat(seqs, lo, mid) \o Concat(seqs, mid + 1, hi)

\* the grapheme clusters of the whole stream, in order
StreamGraphemes == Concat([a \in 1..Len(segments) |-> SegmentGraphemes(a)], 1, Len(segments))

\* the text of a list of segments
TextOf(segs) == Concat([a \in 1..Len(segs) |-> segs[a].value], 1, Len(segs))

\* u occurs in t as a contiguous run of scalars
Contains(t, u) ==
    \E s \in 0..(Len(t) - Len(u)) : SubSeq(t, s + 1, s + Len(u)) = u

\* the colour gradientify gives to the grapheme at stream position j (from 1)
SampleColor(j) == [kind |-> "RgbLinear", gradient |-> "sunset", sample |-> j - 1, of |-> TotalSamples]

\* the style of the segment handed to the last gradientify call, the default
\* style when it has none
InputStyle ==
    IF segments[i].style = <<>>
    THEN [foreground |-> NoColor, background |-> NoColor, is_bold |-> FALSE]
    ELSE segments[i].style[1]

Rendered == pc = "done" /\ result # <<>>

NoSshVar == \A v \in SshVars : env[v] = <<>>

UserPresent == env[USERNAME_ENV_VAR] # <<>>

----------------------------------------------------------------------------
(* Properties *)

\* C1: after the first i segments have been processed the running offset
\* equals the sum of the grapheme counts of those segments.
CE_C1 == total = SumGraphemes(i)

\* C2: for a stream of Text segments of one style with at most TotalSamples
\* graphemes, the final list is the stream's graphemes in order and the one
\* at stream position j has the foreground colour sample j.
CE_C2 ==
    (/\ Rendered
     /\ \A a \in 1..Len(segments) :
          segments[a].kind = "Text" /\ segments[a].style = segments[1].style
     /\ SumGraphemes(Len(segments)) <= TotalSamples)
    => /\ [j \in 1..Len(out) |-> out[j].value] = StreamGraphemes
       /\ \A j \in 1..Len(out) : out[j].style[1].foreground = SampleColor(j)

\* C3: when the stream has at most TotalSamples graphemes, the final list
\* has as many segments as the stream has graphemes.
CE_C3 ==
    (Rendered /\ SumGraphemes(Len(segments)) <= TotalSamples)
    => Len(result[1]) = SumGraphemes(Len(segments))

\* C4: every segment gradientify emits has a style, equal to the input
\* segment's style (the default style if it has none) in every attribute
\* other than the foreground colour.
Thm_C4 ==
    i >= 1 =>
      \A j \in 1..Len(w) :
        /\ w[j].style # <<>>
        /\ w[j].style[1].background = InputStyle.background
        /\ w[j].style[1].is_bold = InputStyle.is_bold

Wit_C4 ==
    /\ i >= 1
    /\ w # <<>>
    /\ segments[i].kind = "Text"
    /\ segments[i].style # <<>>
    /\ InputStyle.background # NoColor
    /\ w[1].style[1].foreground # InputStyle.foreground

\* C5: every segment gradientify emits, whatever the variant of its input,
\* has the paired sampled colour as its foreground colour.
CE_C5 ==
    i >= 1 => \A j \in 1..Len(w) : w[j].style[1].foreground = SampleColor(k + j)

\* C6: when the username variable is absent, module() returns None and
\* never reaches the formatter.
Thm_C6 == ~UserPresent => (pc \in {"start", "done"} /\ result = <<>>)

Wit_C6 ==
    /\ pc = "done"
    /\ ~UserPresent
    /\ config.show_always
    /\ is_root
    /\ env["LOGNAME"] # <<>>
    /\ \A v \in SshVars : env[v] # <<>> /\ env[v][1] # <<>>

\* the case C7 is about: username present and equal to LOGNAME, show_always
\* off, not elevated, a template that parses
CaseC7 ==
    /\ pc = "done"
    /\ UserPresent
    /\ env["LOGNAME"] = env[USERNAME_ENV_VAR]
    /\ ~config.show_always
    /\ ~is_root
    /\ config.format \in Formats

\* C7 (as amended): in that case the module renders exactly when one of
\* SSH_CONNECTION, SSH_CLIENT, SSH_TTY is present, whatever its value.
Thm_C7 == CaseC7 => (Rendered <=> ~NoSshVar)

Wit_C7 ==
    /\ CaseC7
    /\ Rendered
    /\ env["SSH_TTY"] = <<<<>>>>
    /\ env["SSH_CONNECTION"] = <<>>
    /\ env["SSH_CLIENT"] = <<>>

\* C7 (as stated): in that case the module renders exactly when one of the
\* three variables is present and not empty.
CE_C7 ==
    CaseC7 => (Rendered <=> \E v \in SshVars : env[v] # <<>> /\ env[v][1] # <<>>)

\* C8: with the username present, show_always off, not elevated, no SSH
\* variable and the default template, module() renders exactly when LOGNAME
\* is present and differs from the username, and what it renders contains
\* the username.
CE_C8 ==
    (/\ pc = "done"
     /\ UserPresent
     /\ ~config.show_always
     /\ ~is_root
     /\ NoSshVar
     /\ config.format = DefaultFormat)
    => /\ Rendered <=> (env["LOGNAME"] # <<>> /\ env["LOGNAME"] # env[USERNAME_ENV_VAR])
       /\ Rendered => Contains(TextOf(result[1]), env[USERNAME_ENV_VAR][1])

\* C9: a segment with empty text adds nothing to the output and leaves the
\* running offset as it is.
Thm_C9 ==
    [][(pc = "flat_map" /\ i < Len(segments) /\ segments[i + 1].value = <<>>)
       => (out' = out /\ total' = total /\ w' = <<>>)]_vars

Wit_C9 ==
    /\ pc = "flat_map"
    /\ i >= 2
    /\ i < Len(segments)
    /\ segments[i].value = <<>>
    /\ k > 0
    /\ k < TotalSamples
    /\ total = k

\* C10: for a segment of g graphemes at offset k gradientify emits the first
\* min(g, max(0, TotalSamples - k)) graphemes, in order; from offset
\* TotalSamples on it emits nothing, and the output never has more than
\* TotalSamples segments.
Thm_C10 ==
    /\ i >= 1 =>
         /\ Len(w) = Min(Len(SegmentGraphemes(i)), Max(0, TotalSamples - k))
         /\ \A j \in 1..Len(w) : w[j].value = SegmentGraphemes(i)[j]
         /\ k >= TotalSamples => w = <<>>
    /\ Len(out) <= TotalSamples

Wit_C10 ==
    /\ i >= 2
    /\ k < TotalSamples
    /\ Len(w) = TotalSamples - k
    /\ Len(w) < Len(SegmentGraphemes(i))
    /\ pc = "done"
    /\ TextOf(result[1]) # TextOf(segments)

====
